---- MODULE Spec2Model ----
(***************************************************************************)
(* Model of the vizia textbox (crates/vizia_core/src/views/textbox.rs):    *)
(* TextboxData, the model that handles the TextEvent vocabulary against a  *)
(* cosmic_text editor, and the Textbox view, which translates window       *)
(* events into TextEvents and projects the laid-out text into accesskit    *)
(* line nodes.                                                             *)
(*                                                                         *)
(* Text is a sequence of byte tokens, so that every offset of the model is *)
(* a byte offset, as in the code: "a" is a one-byte letter, "_" a one-byte *)
(* space, "E" "e" the lead and continuation byte of one two-byte character *)
(* and "\n" the newline (in event payloads only: the buffer stores hard    *)
(* lines without their newline).  Line numbers and offsets are 0-based, as *)
(* in cosmic_text::Cursor.                                                 *)
(***************************************************************************)
EXTENDS Integers, Sequences, FiniteSets, TLC

\* ------------------------------------------------------------------ bounds
\* Longest text (in bytes, newlines included) of the accessibility checks.
AccLen == 3
\* Longest text (in bytes, newlines included) of the editing session.
MaxLen == 2
\* Longest payload of an InsertText or ResetText event.
MaxInsert == 1
\* Longest payload of the scripted insert-then-delete scenario.
UndoLen == 2

\* Geometry, in physical pixels: the advance of a glyph, the height of a
\* line, the width and height of the container.
GlyphW == 2
LineH == 2
ContW == 4
ContH == 2
\* Glyphs per visual line of a MultiLineWrapped textbox.
WrapGlyphs == ContW \div GlyphW

\* ------------------------------------------------------------- text basics
NL == "\n"
Lead == "E"
Cont == "e"
Bytes == {"a", "_", Lead, Cont}

\* Option::None of a Cursor.
NoCursor == [line |-> -1, index |-> -1]
Cursor(l, i) == [line |-> l, index |-> i]

\* A well-formed UTF-8 line: a continuation byte follows each lead byte and
\* nothing else.
WellFormed(t) ==
    /\ \A i \in 1..Len(t) : (t[i] = Lead) => (i < Len(t) /\ t[i + 1] = Cont)
    /\ \A i \in 1..Len(t) : (t[i] = Cont) => (i > 1 /\ t[i - 1] = Lead)

\* Byte offset i of t is a character boundary.
IsBoundary(t, i) == i \in 0..Len(t) /\ (i = Len(t) \/ t[i + 1] # Cont)

Slice(t, from, to) == SubSeq(t, from + 1, to)

Max(a, b) == IF a >= b THEN a ELSE b
Min(a, b) == IF a <= b THEN a ELSE b

RECURSIVE SumSeq(_)
SumSeq(s) == IF s = <<>> THEN 0 ELSE Head(s) + SumSeq(Tail(s))

RECURSIVE Flatten(_)
Flatten(ss) == IF ss = <<>> THEN <<>> ELSE Head(ss) \o Flatten(Tail(ss))

\* str::split('\n'): the pieces between newlines ("a\n" gives "a" and "").
RECURSIVE SplitNL(_, _)
SplitNL(s, acc) ==
    IF s = <<>> THEN <<acc>>
    ELSE IF Head(s) = NL THEN <<acc>> \o SplitNL(Tail(s), <<>>)
    ELSE SplitNL(Tail(s), Append(acc, Head(s)))

\* lines.join("\n")
RECURSIVE JoinNL(_)
JoinNL(ls) ==
    IF ls = <<>> THEN <<>>
    ELSE IF Len(ls) = 1 THEN ls[1]
    ELSE ls[1] \o <<NL>> \o JoinNL(Tail(ls))

\* The grapheme boundaries of a line, in order (every character of the
\* model's alphabet is a grapheme cluster of its own).
GraphemeStarts(t) == {i \in 0..(Len(t) - 1) : IsBoundary(t, i)}

\* Number of graphemes of a payload string (a newline is one grapheme).
Graphemes(s) == Cardinality({i \in 1..Len(s) : s[i] # Cont})

IsWordByte(b) == b \in {"a", Lead, Cont}

\* unicode_word_indices: the maximal runs of word characters, as
\* <<start, end>> byte ranges.
WordRanges(t) ==
    {<<i, j>> \in (0..Len(t)) \X (0..Len(t)) :
        /\ i < j
        /\ \A k \in (i + 1)..j : IsWordByte(t[k])
        /\ (i = 0 \/ ~IsWordByte(t[i]))
        /\ (j = Len(t) \/ ~IsWordByte(t[j + 1]))}

\* ------------------------------------------------ layout (shaping service)
\* The glyphs of a hard line: one per character, with its byte range.
RECURSIVE GlyphsFrom(_, _)
GlyphsFrom(t, i) ==
    IF i >= Len(t) THEN <<>>
    ELSE LET e == IF t[i + 1] = Lead THEN i + 2 ELSE i + 1
         IN  <<[start |-> i, end |-> e]>> \o GlyphsFrom(t, e)

Glyphs(t) == GlyphsFrom(t, 0)

\* The visual lines of one hard line: its glyphs broken every w glyphs
\* (w = 0: no wrapping).  An empty hard line has one run with no glyph.
RECURSIVE Chunks(_, _)
Chunks(gs, w) ==
    IF w = 0 \/ Len(gs) <= w THEN <<gs>>
    ELSE <<SubSeq(gs, 1, w)>> \o Chunks(SubSeq(gs, w + 1, Len(gs)), w)

WrapOf(k) == IF k = "MultiLineWrapped" THEN WrapGlyphs ELSE 0

\* Buffer::layout_runs: every visual line, in rendering order, with the
\* index line_i of its hard line and that hard line's whole text.
RECURSIVE RunsFrom(_, _, _)
RunsFrom(lines, i, w) ==
    IF i > Len(lines) THEN <<>>
    ELSE LET cs == Chunks(Glyphs(lines[i]), w)
         IN  [k \in 1..Len(cs) |->
                [line_i |-> i - 1, text |-> lines[i], glyphs |-> cs[k]]]
             \o RunsFrom(lines, i + 1, w)

layout_runs(lines, w) == RunsFrom(lines, 1, w)

\* ---------------------------------------------- editor (cosmic_text::Editor)
\* An editor is [lines, cursor, select_opt].  PanicEd is the outcome of an
\* operation that indexes the buffer out of range (a Rust panic); every
\* operation passes it on.
PanicEd == [lines |-> <<>>, cursor |-> NoCursor, select_opt |-> NoCursor]

InRange(lines, c) ==
    /\ c.line \in 0..(Len(lines) - 1)
    /\ c.index \in 0..Len(lines[c.line + 1])

LineOk(ed) == ed.cursor.line \in 0..(Len(ed.lines) - 1)

CurLine(ed) == ed.lines[ed.cursor.line + 1]

\* The two ends of the selection, in buffer order.
SelStart(ed) ==
    LET s == ed.select_opt  c == ed.cursor
    IN  IF s.line > c.line THEN c
        ELSE IF s.line < c.line THEN s
        ELSE IF s.index < c.index THEN s ELSE c

SelEnd(ed) ==
    LET s == ed.select_opt  c == ed.cursor
    IN  IF s.line > c.line THEN s
        ELSE IF s.line < c.line THEN c
        ELSE IF s.index < c.index THEN c ELSE s

\* Editor::delete_selection: takes select_opt; removes the text between the
\* two ends and leaves the cursor at the start.  Its bool result is
\* HadSelection of the editor it was applied to.
HadSelection(ed) == ed.select_opt # NoCursor

DeleteRange(lines, start, end) ==
    IF ~InRange(lines, start) \/ ~InRange(lines, end) THEN PanicEd
    ELSE [lines |-> SubSeq(lines, 1, start.line)
                    \o <<Slice(lines[start.line + 1], 0, start.index)
                          \o Slice(lines[end.line + 1], end.index,
                                   Len(lines[end.line + 1]))>>
                    \o SubSeq(lines, end.line + 2, Len(lines)),
          cursor |-> start,
          select_opt |-> NoCursor]

delete_selection(ed) ==
    IF ed = PanicEd THEN PanicEd
    ELSE IF ed.select_opt = NoCursor THEN ed
    ELSE DeleteRange(ed.lines, SelStart(ed), SelEnd(ed))

\* Editor::copy_selection: None (NoText) without a selection, else the
\* selected text, hard lines joined by newlines.
NoText == <<"None">>

CopyRange(lines, start, end) ==
    IF start.line = end.line
    THEN Slice(lines[start.line + 1], start.index, end.index)
    ELSE Slice(lines[start.line + 1], start.index, Len(lines[start.line + 1]))
         \o <<NL>>
         \o Flatten([k \in 1..(end.line - start.line - 1) |->
                       lines[start.line + 1 + k] \o <<NL>>])
         \o Slice(lines[end.line + 1], 0, end.index)

copy_selection(ed) ==
    IF ed.select_opt = NoCursor THEN NoText
    ELSE CopyRange(ed.lines, SelStart(ed), SelEnd(ed))

\* Editor::insert_string: replaces the selection by data, split at its
\* newlines into hard lines; the cursor ends after the inserted text.
\* The pieces ps of the data replace the cursor's place between the parts
\* before and after it of the cursor's line.
InsertPieces(d, ps, before, after) ==
    [lines |-> SubSeq(d.lines, 1, d.cursor.line)
               \o (IF Len(ps) = 1 THEN <<before \o ps[1] \o after>>
                   ELSE <<before \o ps[1]>>
                        \o SubSeq(ps, 2, Len(ps) - 1)
                        \o <<ps[Len(ps)] \o after>>)
               \o SubSeq(d.lines, d.cursor.line + 2, Len(d.lines)),
     cursor |-> Cursor(d.cursor.line + Len(ps) - 1,
                       IF Len(ps) = 1 THEN Len(before) + Len(ps[1])
                       ELSE Len(ps[Len(ps)])),
     select_opt |-> NoCursor]

InsertAt(d, data) ==
    IF d = PanicEd THEN PanicEd
    ELSE IF data = <<>> THEN d
    ELSE IF ~InRange(d.lines, d.cursor) THEN PanicEd
    ELSE InsertPieces(d, SplitNL(data, <<>>),
                      Slice(CurLine(d), 0, d.cursor.index),
                      Slice(CurLine(d), d.cursor.index, Len(CurLine(d))))

insert_string(ed, data) == InsertAt(delete_selection(ed), data)

\* Buffer::set_text: the hard lines of text (str::lines drops the empty
\* piece after a final newline), at least one line.  The editor's cursor
\* and selection are not touched.
TextLines(text) ==
    LET ps == SplitNL(text, <<>>)
        n == Len(ps)
    IN  IF text = <<>> THEN <<<<>>>>
        ELSE IF ps[n] = <<>> THEN SubSeq(ps, 1, n - 1)
        ELSE ps

set_text(ed, text) == [ed EXCEPT !.lines = TextLines(text)]

\* Buffer::layout_cursor: the visual line (0-based, within the hard line)
\* and glyph position of the cursor; a position where one visual line ends
\* and the next starts belongs to the earlier one; (0, 0) when not found.
\* The visual lines of cs that hold byte offset i.
LayoutHits(cs, i) ==
    {k \in 1..Len(cs) :
        \/ cs[k] = <<>>
        \/ \E g \in 1..Len(cs[k]) : cs[k][g].start = i
        \/ (cs[k] # <<>> /\ cs[k][Len(cs[k])].end = i)}

\* The glyph of visual line c that starts at i: its number, or the number
\* of glyphs when i is the line's end.
GlyphAt(c, i) ==
    IF \E g \in 1..Len(c) : c[g].start = i
    THEN (CHOOSE g \in 1..Len(c) : c[g].start = i) - 1
    ELSE Len(c)

LayoutIn(cs, i, hits) ==
    IF hits = {} THEN [layout |-> 0, glyph |-> 0]
    ELSE [layout |-> (CHOOSE x \in hits : \A y \in hits : x <= y) - 1,
          glyph |-> GlyphAt(cs[CHOOSE x \in hits : \A y \in hits : x <= y],
                            i)]

LayoutOf(cs, i) == LayoutIn(cs, i, LayoutHits(cs, i))

LayoutCursor(ed, w) ==
    LayoutOf(Chunks(Glyphs(CurLine(ed)), w), ed.cursor.index)

\* Editor::set_layout_cursor: the byte offset of glyph number glyph of
\* visual line layout of hard line line (the last visual line, the end of
\* the line, when there is no such line or glyph).
GlyphIndex(gs, glyph) ==
    IF glyph + 1 <= Len(gs) THEN gs[glyph + 1].start
    ELSE IF gs = <<>> THEN 0 ELSE gs[Len(gs)].end

ChunkAt(cs, layout) == cs[IF layout + 1 <= Len(cs) THEN layout + 1 ELSE Len(cs)]

SetLayoutCursor(ed, line, layout, glyph, w) ==
    [ed EXCEPT !.cursor =
        Cursor(line,
               GlyphIndex(ChunkAt(Chunks(Glyphs(ed.lines[line + 1]), w),
                                  layout),
                          glyph))]

Previous(ed) ==
    LET i == ed.cursor.index
        before == {j \in GraphemeStarts(CurLine(ed)) : j < i}
    IN  IF i > 0
        THEN [ed EXCEPT !.cursor.index =
                IF before = {} THEN 0
                ELSE CHOOSE j \in before : \A k \in before : k <= j]
        ELSE IF ed.cursor.line > 0
        THEN [ed EXCEPT !.cursor =
                Cursor(ed.cursor.line - 1, Len(ed.lines[ed.cursor.line]))]
        ELSE ed

\* A variant of NextGrapheme that does not look at the end of the line.
NextUnchecked(ed) == [ed EXCEPT !.cursor.index = @ + 1]

NextGrapheme(ed) ==
    LET i == ed.cursor.index
        t == CurLine(ed)
    IN  IF i < Len(t)
        THEN IF i \in GraphemeStarts(t)
             THEN [ed EXCEPT !.cursor.index =
                     IF t[i + 1] = Lead THEN i + 2 ELSE i + 1]
             ELSE ed
        ELSE IF ed.cursor.line + 1 < Len(ed.lines)
        THEN [ed EXCEPT !.cursor = Cursor(ed.cursor.line + 1, 0)]
        ELSE ed

PreviousWord(ed) ==
    LET i == ed.cursor.index
        starts == {r[1] : r \in {q \in WordRanges(CurLine(ed)) : q[1] < i}}
    IN  IF i > 0
        THEN [ed EXCEPT !.cursor.index =
                IF starts = {} THEN 0
                ELSE CHOOSE j \in starts : \A k \in starts : k <= j]
        ELSE IF ed.cursor.line > 0
        THEN [ed EXCEPT !.cursor =
                Cursor(ed.cursor.line - 1, Len(ed.lines[ed.cursor.line]))]
        ELSE ed

NextWord(ed) ==
    LET i == ed.cursor.index
        t == CurLine(ed)
        ends == {r[2] : r \in {q \in WordRanges(t) : q[2] > i}}
    IN  IF i < Len(t)
        THEN [ed EXCEPT !.cursor.index =
                IF ends = {} THEN Len(t)
                ELSE CHOOSE j \in ends : \A k \in ends : j <= k]
        ELSE IF ed.cursor.line + 1 < Len(ed.lines)
        THEN [ed EXCEPT !.cursor = Cursor(ed.cursor.line + 1, 0)]
        ELSE ed

\* Up from layout position lc: the visual line above in the same hard
\* line, else the last visual line of the hard line above, else no move.
UpFrom(ed, lc, w) ==
    SetLayoutCursor(ed,
                    IF lc.layout = 0 /\ ed.cursor.line > 0
                    THEN ed.cursor.line - 1 ELSE ed.cursor.line,
                    IF lc.layout > 0 THEN lc.layout - 1
                    ELSE IF ed.cursor.line > 0
                    THEN Len(ed.lines[ed.cursor.line]) + 1
                    ELSE lc.layout,
                    lc.glyph, w)

Up(ed, w) == UpFrom(ed, LayoutCursor(ed, w), w)

\* Down from layout position lc of a hard line of n visual lines.
DownFrom(ed, lc, n, w) ==
    SetLayoutCursor(ed,
                    IF lc.layout + 1 >= n /\ ed.cursor.line + 1 < Len(ed.lines)
                    THEN ed.cursor.line + 1 ELSE ed.cursor.line,
                    IF lc.layout + 1 < n THEN lc.layout + 1
                    ELSE IF ed.cursor.line + 1 < Len(ed.lines) THEN 0
                    ELSE lc.layout,
                    lc.glyph, w)

Down(ed, w) ==
    DownFrom(ed, LayoutCursor(ed, w), Len(Chunks(Glyphs(CurLine(ed)), w)), w)

RECURSIVE Repeat(_, _, _, _)
Repeat(ed, n, up, w) ==
    IF n = 0 THEN ed
    ELSE Repeat(IF up THEN Up(ed, w) ELSE Down(ed, w), n - 1, up, w)

\* Editor::action for the actions that textbox.rs issues.  a is
\* [name] (with lines for Vertical and hit for Click and Drag: the cursor
\* the buffer's hit test gives, NoCursor when it gives none).
action(ed, a, w) ==
    IF ed = PanicEd THEN PanicEd
    ELSE IF a.name = "BufferStart" THEN [ed EXCEPT !.cursor = Cursor(0, 0)]
    ELSE IF a.name = "BufferEnd"
    THEN [ed EXCEPT !.cursor =
            Cursor(Len(ed.lines) - 1, Len(ed.lines[Len(ed.lines)]))]
    ELSE IF a.name = "Click"
    THEN [ed EXCEPT !.select_opt = NoCursor,
                    !.cursor = IF a.hit = NoCursor THEN @ ELSE a.hit]
    ELSE IF a.name = "Drag"
    THEN [ed EXCEPT !.select_opt = IF @ = NoCursor THEN ed.cursor ELSE @,
                    !.cursor = IF a.hit = NoCursor THEN @ ELSE a.hit]
    ELSE IF a.name = "ParagraphStart" THEN [ed EXCEPT !.cursor.index = 0]
    ELSE IF ~LineOk(ed) THEN PanicEd
    ELSE IF a.name = "ParagraphEnd"
    THEN [ed EXCEPT !.cursor.index = Len(CurLine(ed))]
    ELSE IF a.name \in {"Previous", "Left"} THEN Previous(ed)
    ELSE IF a.name \in {"Next", "Right"} THEN NextGrapheme(ed)
    ELSE IF a.name \in {"PreviousWord", "LeftWord"} THEN PreviousWord(ed)
    ELSE IF a.name \in {"NextWord", "RightWord"} THEN NextWord(ed)
    ELSE IF a.name = "Up" THEN Up(ed, w)
    ELSE IF a.name = "Down" THEN Down(ed, w)
    ELSE IF a.name = "Home"
    THEN SetLayoutCursor(ed, ed.cursor.line, LayoutCursor(ed, w).layout, 0, w)
    ELSE IF a.name = "End"
    THEN SetLayoutCursor(ed, ed.cursor.line, LayoutCursor(ed, w).layout,
                         Len(CurLine(ed)) + 1, w)
    ELSE IF a.name = "Vertical"
    THEN Repeat(ed, IF a.lines < 0 THEN -a.lines ELSE a.lines, a.lines < 0, w)
    ELSE ed

Act(name) == [name |-> name]

\* --------------------------------------------- accessibility (Textbox view)
\* The node of the textbox itself; the node of visual line number index is
\* AccessNode::new_from_parent(node_id, index), modelled as index.
RootNode == -1

\* One pass of the loop of Textbox::accessibility over a layout run: st is
\* the loop's local state, pos the position looked for (the cursor or the
\* selection anchor), sel the (node, character_index) found so far.
LineLength(run) ==
    SumSeq([g \in 1..Len(run.glyphs) |->
              run.glyphs[g].end - run.glyphs[g].start])

LastGlyphPos(run) ==
    IF run.glyphs = <<>> THEN 0 ELSE run.glyphs[Len(run.glyphs)].end

FirstGlyphPos(run) ==
    IF run.glyphs = <<>> THEN 0 ELSE run.glyphs[1].start

\* character_lengths of the line node: one entry per glyph, and one more
\* for the newline added back when the run ends its hard line.
CharacterLengths(run) ==
    [g \in 1..Len(run.glyphs) |-> run.glyphs[g].end - run.glyphs[g].start]
    \o (IF LastGlyphPos(run) = Len(run.text) THEN <<1>> ELSE <<>>)

\* A variant of Locate that exports every offset relative to the hard
\* line.
LocateAbsolute(pos, sel, index, run, prev_line_index, current_cursor) ==
    IF run.line_i = pos.line
       /\ pos.index >= FirstGlyphPos(run) /\ pos.index <= LastGlyphPos(run)
    THEN [node |-> index, character_index |-> pos.index]
    ELSE sel

Locate(pos, sel, index, run, prev_line_index, current_cursor) ==
    IF run.line_i = pos.line
    THEN IF prev_line_index # run.line_i
         THEN IF pos.index <= LineLength(run)
              THEN [node |-> index, character_index |-> pos.index]
              ELSE sel
         ELSE IF pos.index > current_cursor
              THEN [node |-> index,
                    character_index |-> pos.index - current_cursor]
              ELSE sel
    ELSE sel

RECURSIVE AccessLoop(_, _, _, _, _)
AccessLoop(runs, index, st, cursor, selection) ==
    IF index >= Len(runs) THEN st
    ELSE LET run == runs[index + 1]
             cc == IF run.line_i # st.prev_line_index THEN 0
                   ELSE st.current_cursor
         IN  AccessLoop(runs, index + 1,
                [children |-> Append(st.children,
                                [line_i |-> run.line_i,
                                 character_lengths |-> CharacterLengths(run)]),
                 focus |-> Locate(cursor, st.focus, index, run,
                                  st.prev_line_index, cc),
                 anchor |-> Locate(selection, st.anchor, index, run,
                                   st.prev_line_index, cc),
                 current_cursor |-> cc + LineLength(run),
                 prev_line_index |-> run.line_i],
                cursor, selection)

\* Textbox::accessibility: the line nodes and the text selection exported
\* for the editor's state.
Accessibility(ed, w) ==
    LET selection == IF ed.select_opt = NoCursor THEN ed.cursor
                     ELSE ed.select_opt
        st == AccessLoop(layout_runs(ed.lines, w), 0,
                [children |-> <<>>,
                 focus |-> [node |-> RootNode, character_index |-> 0],
                 anchor |-> [node |-> RootNode, character_index |-> 0],
                 current_cursor |-> 0,
                 prev_line_index |-> -1],
                ed.cursor, selection)
    IN  [children |-> st.children, anchor |-> st.anchor, focus |-> st.focus]

\* The loop of the SetTextSelection request over the layout runs: the
\* anchor's node is compared before current_cursor is reset for a new hard
\* line.
RECURSIVE RequestLoop(_, _, _, _)
RequestLoop(runs, index, st, anchor) ==
    IF index >= Len(runs) THEN st
    ELSE LET run == runs[index + 1]
             found == index = anchor.node
             cc == IF run.line_i # st.prev_line_index THEN 0
                   ELSE st.current_cursor
         IN  RequestLoop(runs, index + 1,
                [selection_line_index |->
                    IF found THEN run.line_i ELSE st.selection_line_index,
                 selection_index |->
                    IF found THEN anchor.character_index + st.current_cursor
                    ELSE st.selection_index,
                 current_cursor |->
                    cc + (LastGlyphPos(run) - FirstGlyphPos(run)),
                 prev_line_index |-> run.line_i],
                anchor)

\* Textbox::event, ActionRequest SetTextSelection: installs the position
\* resolved from the request's anchor as the selection anchor.
SetTextSelection(ed, selection, w) ==
    LET st == RequestLoop(layout_runs(ed.lines, w), 0,
                [selection_line_index |-> 0,
                 selection_index |-> 0,
                 current_cursor |-> 0,
                 prev_line_index |-> -1],
                selection.anchor)
    IN  [ed EXCEPT !.select_opt =
            Cursor(st.selection_line_index, st.selection_index)]

\* ------------------------------------------------------ TextboxData helpers
Movement(unit, dir) == [unit |-> unit, dir |-> dir]
NoMove == Movement("None", "None")
Directions == {"Upstream", "Downstream", "Left", "Right"}
Movements ==
    {Movement(u, d) : u \in {"Grapheme", "Word", "Line", "Page", "Body"},
                      d \in Directions}
    \cup {Movement("LineStart", "None"), Movement("LineEnd", "None")}

NoAction == Act("None")

\* The match of TextboxData::move_cursor from a Movement to the editor's
\* Action; NoAction is the arm "_ => return".
MovementAction(m) ==
    IF m.unit = "Grapheme"
    THEN Act(CASE m.dir = "Upstream" -> "Previous"
               [] m.dir = "Downstream" -> "Next"
               [] m.dir = "Left" -> "Left"
               [] m.dir = "Right" -> "Right")
    ELSE IF m.unit = "Word"
    THEN Act(CASE m.dir = "Upstream" -> "PreviousWord"
               [] m.dir = "Downstream" -> "NextWord"
               [] m.dir = "Left" -> "LeftWord"
               [] m.dir = "Right" -> "RightWord")
    ELSE IF m.unit = "Line" /\ m.dir = "Upstream" THEN Act("Up")
    ELSE IF m.unit = "Line" /\ m.dir = "Downstream" THEN Act("Down")
    ELSE IF m.unit = "LineStart" THEN Act("Home")
    ELSE IF m.unit = "LineEnd" THEN Act("End")
    ELSE IF m.unit = "Page"
    THEN [name |-> "Vertical",
          lines |-> (IF m.dir = "Upstream" THEN -1 ELSE 1) * (ContH \div LineH)]
    ELSE IF m.unit = "Body" /\ m.dir = "Upstream" THEN Act("BufferStart")
    ELSE IF m.unit = "Body" /\ m.dir = "Downstream" THEN Act("BufferEnd")
    ELSE NoAction

\* TextboxData::move_cursor
\* The selection before the move: started at the cursor or kept when
\* selection is set, dropped otherwise.
\* A variant of MoveSelection that starts a new selection at the cursor on
\* every extending move.
MoveSelectionReanchors(ed, selection) ==
    [ed EXCEPT !.select_opt = IF selection THEN ed.cursor ELSE NoCursor]

MoveSelection(ed, selection) ==
    IF selection
    THEN IF ed.select_opt = NoCursor
         THEN [ed EXCEPT !.select_opt = ed.cursor]
         ELSE ed
    ELSE [ed EXCEPT !.select_opt = NoCursor]

MoveBy(s, a, w) == IF a = NoAction THEN s ELSE action(s, a, w)

move_cursor(ed, m, selection, k) ==
    IF ed = PanicEd THEN PanicEd
    ELSE MoveBy(MoveSelection(ed, selection), MovementAction(m), WrapOf(k))

\* TextboxData::insert_text
insert_text(ed, text) == insert_string(ed, text)

\* A variant of delete_text that never moves the cursor first.
DeleteSelectionOnly(ed, m, k) == delete_selection(ed)

\* A variant of delete_text that moves the cursor before every deletion.
DeleteAfterMove(ed, m, k) == delete_selection(move_cursor(ed, m, TRUE, k))

\* TextboxData::delete_text
delete_text(ed, m, k) ==
    IF HadSelection(ed) THEN delete_selection(ed)
    ELSE delete_selection(move_cursor(ed, m, TRUE, k))

\* TextboxData::reset_text
reset_text(ed, text) == set_text(ed, text)

\* TextboxData::select_all
\* "set_select_opt(Some(editor.cursor()))"
SelectFromCursor(ed) ==
    IF ed = PanicEd THEN PanicEd ELSE [ed EXCEPT !.select_opt = ed.cursor]

select_all(ed, k) ==
    action(SelectFromCursor(action(ed, Act("BufferStart"), WrapOf(k))),
           Act("BufferEnd"), WrapOf(k))

\* TextboxData::select_word
select_word(ed, k) ==
    action(SelectFromCursor(action(ed, Act("PreviousWord"), WrapOf(k))),
           Act("NextWord"), WrapOf(k))

\* TextboxData::select_paragraph
select_paragraph(ed, k) ==
    action(SelectFromCursor(action(ed, Act("ParagraphStart"), WrapOf(k))),
           Act("ParagraphEnd"), WrapOf(k))

\* A variant of deselect that leaves the selection in place.
DeselectNothing(ed) == ed

\* TextboxData::deselect
deselect(ed) == [ed EXCEPT !.select_opt = NoCursor]

\* TextboxData::hit and TextboxData::drag; h is the cursor the buffer's hit
\* test gives for the text coordinates (NoCursor: none).
hit(ed, h, k) == action(ed, [name |-> "Click", hit |-> h], WrapOf(k))
drag(ed, h, k) == action(ed, [name |-> "Drag", hit |-> h], WrapOf(k))

\* TextboxData::clone_text
clone_text(ed) == JoinNL(ed.lines)

\* TextboxData::clone_selected; PanicText when the selection is out of the
\* buffer's range.
PanicText == <<"Panic">>

clone_selected(ed) ==
    IF ed.select_opt = NoCursor THEN NoText
    ELSE IF ~InRange(ed.lines, ed.select_opt) \/ ~InRange(ed.lines, ed.cursor)
    THEN PanicText
    ELSE copy_selection(ed)

\* ------------------------------------------------------- viewport geometry
Box(x, y, w, h) == [x |-> x, y |-> y, w |-> w, h |-> h]
NoBox == Box(-1, -1, -1, -1)

\* The container's bounds (the parent of the content entity).
ParentBounds == Box(0, 0, ContW, ContH)

\* The content entity's bounds: the extent of the laid-out text, placed at
\* the container's origin.
BoundsOf(runs) ==
    LET widths == {Len(runs[r].glyphs) * GlyphW : r \in 1..Len(runs)}
    IN  Box(ParentBounds.x, ParentBounds.y,
            CHOOSE m \in widths : \A v \in widths : v <= m,
            Len(runs) * LineH)

ContentBounds(ed, k) == BoundsOf(layout_runs(ed.lines, WrapOf(k)))

\* TextContext::layout_caret: the caret's box for the editor's cursor, one
\* pixel wide; NoBox when the cursor is not a position of the buffer.
\* The caret at layout position lc of a hard line with above visual lines
\* before it.
CaretBox(lc, above) ==
    Box(ParentBounds.x + lc.glyph * GlyphW,
        ParentBounds.y + (above + lc.layout) * LineH,
        1, LineH)

layout_caret(ed, k) ==
    IF ~InRange(ed.lines, ed.cursor) THEN NoBox
    ELSE CaretBox(LayoutCursor(ed, WrapOf(k)),
                  Len(layout_runs(SubSeq(ed.lines, 1, ed.cursor.line),
                                  WrapOf(k))))

\* One axis of enforce_text_bounds: content no longer than the container
\* rests at the container's start; longer content covers the container.
ClampAxis(start, len, pstart, plen, t) ==
    IF len <= plen THEN pstart - start
    ELSE Max((pstart + plen) - (start + len), Min(pstart - start, t))

enforce_text_bounds(bounds, parent, tr) ==
    <<ClampAxis(bounds.x, bounds.w, parent.x, parent.w, tr[1]),
      ClampAxis(bounds.y, bounds.h, parent.y, parent.h, tr[2])>>

\* One axis of ensure_visible: the least shift that brings the box inside.
VisibleAxis(start, len, pstart, plen, t) ==
    IF start + t < pstart THEN pstart - start
    ELSE IF start + len + t > pstart + plen
    THEN (pstart + plen) - (start + len)
    ELSE t

ensure_visible(target, parent, tr) ==
    <<VisibleAxis(target.x, target.w, parent.x, parent.w, tr[1]),
      VisibleAxis(target.y, target.h, parent.y, parent.h, tr[2])>>

\* TextboxData::set_caret (dpi factor 1: physical and logical pixels
\* coincide, and rounding changes nothing).
\* The second half of set_caret: with a caret, the translation that shows
\* it inside the container widened by one pixel on each side.
ShowCaret(caret_box, tr) ==
    IF caret_box = NoBox THEN tr
    ELSE ensure_visible(caret_box,
                        [ParentBounds EXCEPT !.x = @ - 1, !.w = @ + 2], tr)

\* A variant of set_caret that stops after enforce_text_bounds.
SetCaretClampOnly(tr, ed, k) ==
    enforce_text_bounds(ContentBounds(ed, k), ParentBounds, tr)

set_caret(tr, ed, k) ==
    ShowCaret(layout_caret(ed, k),
              enforce_text_bounds(ContentBounds(ed, k), ParentBounds, tr))

SCROLL_SENSITIVITY == 20

\* A variant of scroll that ends, as set_caret does, by showing the caret.
ScrollShowsCaret(tr, ed, k, x, y) ==
    set_caret(<<tr[1] + x * SCROLL_SENSITIVITY,
                tr[2] + y * SCROLL_SENSITIVITY>>, ed, k)

\* A variant of scroll that clamps the stored offset before it adds the
\* delta.
ScrollClampsFirst(tr, ed, k, x, y) ==
    <<enforce_text_bounds(ContentBounds(ed, k), ParentBounds, tr)[1]
          + x * SCROLL_SENSITIVITY,
      enforce_text_bounds(ContentBounds(ed, k), ParentBounds, tr)[2]
          + y * SCROLL_SENSITIVITY>>

\* TextboxData::scroll
scroll(tr, ed, k, x, y) ==
    enforce_text_bounds(ContentBounds(ed, k), ParentBounds,
                        <<tr[1] + x * SCROLL_SENSITIVITY,
                          tr[2] + y * SCROLL_SENSITIVITY>>)

\* ------------------------------------------------------------------- state
VARIABLES
    edit,        \* TextboxData.edit
    transform,   \* TextboxData.transform, <<x, y>>
    kind,        \* TextboxData.kind
    on_edit,     \* TextboxData.on_edit: NoCallback or the callback
    on_submit,   \* TextboxData.on_submit
    editor,      \* the content entity's editor: [lines, cursor, select_opt]
    disabled,    \* cx.is_disabled()
    focused,     \* the textbox holds the input focus
    captured,    \* the textbox holds the input capture
    checked,     \* the textbox's checked mark
    clipboard,   \* the clipboard's text
    queue,       \* the TextEvents emitted and not yet handled
    pc,          \* "idle", or the callback that is executing
    cb,          \* the executing handler's locals: callback and arguments
    aborted,     \* the process panicked
    access,      \* the last accessibility export
    request,     \* the last SetTextSelection request
    saved        \* the editor and the payload a scripted scenario started with

vars == <<edit, transform, kind, on_edit, on_submit, editor, disabled,
          focused, captured, checked, clipboard, queue, pc, cb, aborted,
          access, request, saved>>

NoCallback == "None"
NoCall == [callback |-> NoCallback, text |-> NoText, reason |-> FALSE]
NoExport == [children |-> <<>>,
             anchor |-> [node |-> RootNode, character_index |-> 0],
             focus |-> [node |-> RootNode, character_index |-> 0]]
NoRequest == [anchor |-> [node |-> RootNode, character_index |-> 0]]

NoSaved == [editor |-> PanicEd, data |-> <<>>]

Kinds == {"SingleLine", "MultiLineUnwrapped", "MultiLineWrapped"}

\* A TextEvent.  An event the host emits carries no payload in the queue:
\* its payload is an input of its handler (the host chooses it without
\* regard to the session's state).  An event a handler emits carries the
\* payload the handler computed.
Event(type) ==
    [type |-> type, host |-> TRUE, text |-> <<>>, movement |-> NoMove,
     flag |-> FALSE, delta |-> <<0, 0>>]
InsertTextOf(text) == [Event("InsertText") EXCEPT !.host = FALSE, !.text = text]
ResetTextOf(text) == [Event("ResetText") EXCEPT !.host = FALSE, !.text = text]
DeleteTextOf(m) == [Event("DeleteText") EXCEPT !.host = FALSE, !.movement = m]
MoveCursorOf(m, sel) ==
    [Event("MoveCursor") EXCEPT !.host = FALSE, !.movement = m, !.flag = sel]
SubmitOf(reason) == [Event("Submit") EXCEPT !.host = FALSE, !.flag = reason]
EndEditEvent == [Event("EndEdit") EXCEPT !.host = FALSE]
ScrollOf(x, y) == [Event("Scroll") EXCEPT !.host = FALSE, !.delta = <<x, y>>]

EventTypes ==
    {"InsertText", "ResetText", "DeleteText", "MoveCursor", "SelectAll",
     "SelectWord", "SelectParagraph", "StartEdit", "EndEdit", "Submit", "Hit",
     "Drag", "Scroll", "Copy", "Paste", "Cut", "SetOnEdit", "SetOnSubmit",
     "GeometryChanged"}

\* Payload strings: well-formed, newlines allowed, at most n bytes.
StringsUpTo(n) ==
    {t \in UNION {[1..m -> Bytes \cup {NL}] : m \in 0..n} : WellFormed(t)}

TextLen(ed) == Len(clone_text(ed))

\* The payloads a handler draws for the event at the head of the queue.
TextsOf(e) ==
    IF e.host
    THEN {t \in StringsUpTo(MaxInsert) : TextLen(editor) + Len(t) <= MaxLen}
    ELSE {e.text}
MovementsOf(e) == IF e.host THEN Movements ELSE {e.movement}
FlagsOf(e) == IF e.host THEN BOOLEAN ELSE {e.flag}

\* The deltas of a Scroll event: a wheel notch either way, none, and a
\* large delta either way.
ScrollDeltas == {-100, -1, 0, 1, 100}

DeltasOf(e) == IF e.host THEN ScrollDeltas \X ScrollDeltas ELSE {e.delta}

\* Every position of the buffer a cursor can take.
Positions(lines) ==
    UNION {{Cursor(l - 1, i) :
              i \in {j \in 0..Len(lines[l]) : IsBoundary(lines[l], j)}} :
           l \in 1..Len(lines)}

\* The editors with a text of at most n bytes, the cursor at a position of
\* the text and the selection anchor, if any, at a position of the text.
Editors(n) ==
    UNION {[lines : {SplitNL(t, <<>>)},
            cursor : Positions(SplitNL(t, <<>>)),
            select_opt : Positions(SplitNL(t, <<>>)) \cup {NoCursor}] :
           t \in StringsUpTo(n)}

EmptyEditor ==
    [lines |-> <<<<>>>>, cursor |-> Cursor(0, 0), select_opt |-> NoCursor]

\* A textbox of kind k with editor ed, idle (e = FALSE: as TextboxData::new
\* leaves it) or editing (e = TRUE: as StartEdit leaves it), no callback
\* registered, nothing in flight.
Resting(k, ed, e) ==
    /\ edit = e
    /\ transform = set_caret(<<0, 0>>, ed, k)
    /\ kind = k
    /\ on_edit = NoCallback
    /\ on_submit = NoCallback
    /\ editor = ed
    /\ disabled = FALSE
    /\ focused = e
    /\ captured = e
    /\ checked = e
    /\ clipboard = NoText
    /\ pc = "idle"
    /\ cb = NoCall
    /\ aborted = FALSE
    /\ access = NoExport
    /\ request = NoRequest

\* ------------------------------------------- TextboxData::event (handlers)
\* Each handler takes the event at the head of the queue.
Ready(type) ==
    /\ pc = "idle"
    /\ ~aborted
    /\ queue # <<>>
    /\ Head(queue).type = type

dataVars == <<edit, transform, kind, on_edit, on_submit, editor>>
hostVars == <<disabled, focused, captured, checked>>
auxVars == <<access, request, saved>>

\* A panic: the session ends where it is.
Abort ==
    /\ aborted' = TRUE
    /\ UNCHANGED <<dataVars, hostVars, clipboard, queue, pc, cb, auxVars>>

\* Variants of the definitions below, each with one plausible slip: a
\* callback read without being taken from its slot, a guard left out, the
\* EndEdit of Submit forgotten.
TakeKeepsSlot(slot) == slot
InsertTextUnguarded == TRUE
MoveCursorUnguarded == TRUE
StartEditUnlessEditing == ~edit
SubmitEmitsNothing == <<>>

\* Option::take of a callback slot, and putting the callback back.
Take(slot) == NoCallback
Restore(callback) == callback

\* The guards of the handlers.
\* "cx.emit(TextEvent::EndEdit)" at the end of Submit.
SubmitEmits == <<EndEditEvent>>

InsertTextGuard == edit
DeleteTextGuard == edit
MoveCursorGuard == edit
StartEditGuard == ~disabled /\ ~edit
ClipboardGuard == edit

\* "if let Some(callback) = self.on_edit.take() { callback(cx, text) ... }":
\* with a callback registered the handler stops inside the call, the slot
\* empty; CallbackReturn finishes it.
\* A variant of InvokeOnEdit that passes the text read before the
\* mutation.
InvokeOnEditBefore(ed) ==
    IF on_edit # NoCallback
    THEN /\ pc' = "on_edit"
         /\ cb' = [callback |-> on_edit, text |-> clone_text(editor),
                   reason |-> FALSE]
         /\ on_edit' = Take(on_edit)
    ELSE /\ pc' = "idle"
         /\ UNCHANGED <<cb, on_edit>>

InvokeOnEdit(ed) ==
    IF on_edit # NoCallback
    THEN /\ pc' = "on_edit"
         /\ cb' = [callback |-> on_edit, text |-> clone_text(ed),
                   reason |-> FALSE]
         /\ on_edit' = Take(on_edit)
    ELSE /\ pc' = "idle"
         /\ UNCHANGED <<cb, on_edit>>

\* The event is taken and nothing else happens.
Ignored ==
    /\ queue' = Tail(queue)
    /\ UNCHANGED <<dataVars, hostVars, clipboard, pc, cb, aborted, auxVars>>

\* The rest of InsertText and DeleteText once the editor operation gave ed:
\* set_caret, then the on_edit callback.
Edited(ed) ==
    IF ed = PanicEd THEN Abort
    ELSE /\ editor' = ed
         /\ transform' = set_caret(transform, ed, kind)
         /\ InvokeOnEdit(ed)
         /\ queue' = Tail(queue)
         /\ UNCHANGED <<edit, kind, on_submit, hostVars, clipboard, aborted,
                        auxVars>>

\* The handlers that run an editor operation and then set_caret.
Caret(ed) ==
    IF ed = PanicEd THEN Abort
    ELSE /\ editor' = ed
         /\ transform' = set_caret(transform, ed, kind)
         /\ queue' = Tail(queue)
         /\ UNCHANGED <<edit, kind, on_edit, on_submit, hostVars, clipboard,
                        pc, cb, aborted, auxVars>>

InsertText ==
    /\ Ready("InsertText")
    /\ \E text \in TextsOf(Head(queue)) :
         IF InsertTextGuard THEN Edited(insert_text(editor, text))
         ELSE Ignored

ResetText ==
    /\ Ready("ResetText")
    /\ \E text \in TextsOf(Head(queue)) :
         LET ed == reset_text(editor, text)
         IN  /\ editor' = ed
             /\ transform' = scroll(transform, ed, kind, 0, 0)
             /\ queue' = Tail(queue)
             /\ UNCHANGED <<edit, kind, on_edit, on_submit, hostVars,
                            clipboard, pc, cb, aborted, auxVars>>

DeleteText ==
    /\ Ready("DeleteText")
    /\ \E movement \in MovementsOf(Head(queue)) :
         IF DeleteTextGuard THEN Edited(delete_text(editor, movement, kind))
         ELSE Ignored

MoveCursor ==
    /\ Ready("MoveCursor")
    /\ \E movement \in MovementsOf(Head(queue)),
          selection \in FlagsOf(Head(queue)) :
         IF MoveCursorGuard
         THEN Caret(move_cursor(editor, movement, selection, kind))
         ELSE Ignored

StartEdit ==
    /\ Ready("StartEdit")
    /\ IF StartEditGuard
       THEN /\ edit' = TRUE
            /\ focused' = TRUE
            /\ captured' = TRUE
            /\ checked' = TRUE
       ELSE UNCHANGED <<edit, focused, captured, checked>>
    /\ queue' = Tail(queue)
    /\ UNCHANGED <<transform, kind, on_edit, on_submit, editor, disabled,
                   clipboard, pc, cb, aborted, auxVars>>

EndEdit ==
    /\ Ready("EndEdit")
    /\ editor' = deselect(editor)
    /\ edit' = FALSE
    /\ checked' = FALSE
    /\ captured' = FALSE
    /\ queue' = Tail(queue)
    /\ UNCHANGED <<transform, kind, on_edit, on_submit, disabled, focused,
                   clipboard, pc, cb, aborted, auxVars>>

\* A variant of Submit whose EndEdit overtakes the events already waiting.
SubmitEndsFirst ==
    /\ Ready("Submit")
    /\ \E reason \in FlagsOf(Head(queue)) :
         IF on_submit # NoCallback
         THEN /\ pc' = "on_submit"
              /\ cb' = [callback |-> on_submit, text |-> clone_text(editor),
                        reason |-> reason]
              /\ on_submit' = Take(on_submit)
              /\ queue' = Tail(queue)
         ELSE /\ queue' = SubmitEmits \o Tail(queue)
              /\ UNCHANGED <<pc, cb, on_submit>>
    /\ UNCHANGED <<edit, transform, kind, on_edit, editor, hostVars,
                   clipboard, aborted, auxVars>>

Submit ==
    /\ Ready("Submit")
    /\ \E reason \in FlagsOf(Head(queue)) :
         IF on_submit # NoCallback
         THEN /\ pc' = "on_submit"
              /\ cb' = [callback |-> on_submit, text |-> clone_text(editor),
                        reason |-> reason]
              /\ on_submit' = Take(on_submit)
              /\ queue' = Tail(queue)
         ELSE /\ queue' = Tail(queue) \o SubmitEmits
              /\ UNCHANGED <<pc, cb, on_submit>>
    /\ UNCHANGED <<edit, transform, kind, on_edit, editor, hostVars,
                   clipboard, aborted, auxVars>>

SelectAll == Ready("SelectAll") /\ Caret(select_all(editor, kind))

SelectWord == Ready("SelectWord") /\ Caret(select_word(editor, kind))

SelectParagraph ==
    Ready("SelectParagraph") /\ Caret(select_paragraph(editor, kind))

Hit ==
    /\ Ready("Hit")
    /\ \E h \in Positions(editor.lines) \cup {NoCursor} :
         Caret(hit(editor, h, kind))

Drag ==
    /\ Ready("Drag")
    /\ \E h \in Positions(editor.lines) \cup {NoCursor} :
         Caret(drag(editor, h, kind))

GeometryChanged == Ready("GeometryChanged") /\ Caret(editor)

Scroll ==
    /\ Ready("Scroll")
    /\ \E d \in DeltasOf(Head(queue)) :
         transform' = scroll(transform, editor, kind, d[1], d[2])
    /\ queue' = Tail(queue)
    /\ UNCHANGED <<edit, kind, on_edit, on_submit, editor, hostVars,
                   clipboard, pc, cb, aborted, auxVars>>

SetOnEdit ==
    /\ Ready("SetOnEdit")
    /\ \E f \in {NoCallback, "on_edit_fn"} : on_edit' = f
    /\ queue' = Tail(queue)
    /\ UNCHANGED <<edit, transform, kind, on_submit, editor, hostVars,
                   clipboard, pc, cb, aborted, auxVars>>

SetOnSubmit ==
    /\ Ready("SetOnSubmit")
    /\ \E f \in {NoCallback, "on_submit_fn"} : on_submit' = f
    /\ queue' = Tail(queue)
    /\ UNCHANGED <<edit, transform, kind, on_edit, editor, hostVars,
                   clipboard, pc, cb, aborted, auxVars>>

\* A variant of HasText that lets an empty selection through.
HasSelection(selected_text) == selected_text # NoText

\* "if let Some(selected_text) = self.clone_selected(cx)" and
\* "if !selected_text.is_empty()".
HasText(selected_text) == selected_text # NoText /\ selected_text # <<>>

\* A variant of SetClipboardFailed in which the selection has already been
\* deleted when the clipboard fails.
DeletedThenFailed(ed) ==
    /\ aborted' = TRUE
    /\ editor' = ed
    /\ UNCHANGED <<edit, transform, kind, on_edit, on_submit, hostVars,
                   clipboard, queue, pc, cb, auxVars>>

\* "cx.set_clipboard(selected_text).expect(...)" with an Err: the handler
\* panics where it stands; ed is the editor delete_text would give.
SetClipboardFailed(ed) == Abort

\* Copy: cx.set_clipboard(...).expect(...): a failing clipboard panics.
Copied(selected_text) ==
    IF ClipboardGuard /\ selected_text = PanicText THEN Abort
    ELSE IF ClipboardGuard /\ HasText(selected_text)
    THEN \E ok \in BOOLEAN :
           IF ok
           THEN /\ clipboard' = selected_text
                /\ queue' = Tail(queue)
                /\ UNCHANGED <<dataVars, hostVars, pc, cb, aborted,
                               auxVars>>
           ELSE SetClipboardFailed(editor)
    ELSE Ignored

Copy == Ready("Copy") /\ Copied(clone_selected(editor))

\* Paste: a successful read of the clipboard emits InsertText(text); a
\* failed one ("if let Ok(text)") is passed over.
Paste ==
    /\ Ready("Paste")
    /\ \E ok \in BOOLEAN :
         IF ClipboardGuard /\ ok /\ clipboard # NoText
         THEN queue' = Append(Tail(queue), InsertTextOf(clipboard))
         ELSE queue' = Tail(queue)
    /\ UNCHANGED <<dataVars, hostVars, clipboard, pc, cb, aborted,
                   auxVars>>

\* Cut: the copy of Copy, then delete_text and the on_edit callback (and no
\* set_caret).
CutOf(selected_text, ed) ==
    IF ClipboardGuard /\ selected_text = PanicText THEN Abort
    ELSE IF ClipboardGuard /\ HasText(selected_text)
    THEN \E ok \in BOOLEAN :
           IF ~ok THEN SetClipboardFailed(ed)
           ELSE IF ed = PanicEd THEN Abort
           ELSE /\ clipboard' = selected_text
                /\ editor' = ed
                /\ InvokeOnEdit(ed)
                /\ queue' = Tail(queue)
                /\ UNCHANGED <<edit, transform, kind, on_submit, hostVars,
                               aborted, auxVars>>
    ELSE Ignored

\* A variant of Cut that stops after the copy.
CutCopies == Ready("Cut") /\ Copied(clone_selected(editor))

Cut ==
    /\ Ready("Cut")
    /\ CutOf(clone_selected(editor),
             delete_text(editor, Movement("Grapheme", "Upstream"), kind))

\* The events a callback may emit while it runs (at most one, of the types
\* the specification handles).
CallbackEmits(types) == {<<>>} \cup {<<Event(t)>> : t \in types}

\* The executing callback returns: the handler puts it back into its slot
\* ("self.on_edit = Some(callback)") and, for Submit, emits EndEdit.
CallbackReturnOf(types) ==
    /\ pc # "idle"
    /\ ~aborted
    /\ \E emitted \in CallbackEmits(types) :
         queue' = queue \o emitted
                  \o (IF pc = "on_submit" THEN SubmitEmits ELSE <<>>)
    /\ IF pc = "on_edit"
       THEN on_edit' = Restore(cb.callback) /\ UNCHANGED on_submit
       ELSE on_submit' = Restore(cb.callback) /\ UNCHANGED on_edit
    /\ pc' = "idle"
    /\ cb' = NoCall
    /\ UNCHANGED <<edit, transform, kind, editor, hostVars, clipboard,
                   aborted, auxVars>>

\* ------------------------------------------------------------------ host
\* The event loop delivers one window event at a time and handles every
\* TextEvent it caused before it takes the next: the host emits into an
\* empty queue.
HostReady ==
    /\ pc = "idle"
    /\ ~aborted
    /\ queue = <<>>

\* The host (the Textbox view for a window event, another view) emits a
\* TextEvent.  A Paste is emitted only while the clipboard's text fits the
\* model's longest text.
EmitOf(types) ==
    /\ HostReady
    /\ \E t \in types :
         /\ (t = "Paste" /\ clipboard # NoText)
               => TextLen(editor) + Len(clipboard) <= MaxLen
         /\ queue' = Append(queue, Event(t))
    /\ UNCHANGED <<dataVars, hostVars, clipboard, pc, cb, aborted,
                   auxVars>>

\* The region is disabled or enabled by the application.
SetDisabled ==
    /\ HostReady
    /\ disabled' = ~disabled
    /\ UNCHANGED <<dataVars, focused, captured, checked, clipboard, queue,
                   pc, cb, aborted, auxVars>>

\* Textbox::event, WindowEvent::MouseDown(Left) over the textbox.
MouseDownOver ==
    /\ HostReady
    /\ focused' = TRUE
    /\ captured' = TRUE
    /\ checked' = TRUE
    /\ queue' = Append(queue, Event("Hit"))
    /\ UNCHANGED <<dataVars, disabled, clipboard, pc, cb, aborted,
                   auxVars>>

\* Textbox::event, WindowEvent::MouseDown(Left) elsewhere: Submit(false),
\* then ResetText with the text of the bound source.
MouseDownOutside ==
    /\ HostReady
    /\ \E text \in StringsUpTo(MaxInsert) :
         queue' = queue \o <<SubmitOf(FALSE), ResetTextOf(text)>>
    /\ captured' = FALSE
    /\ checked' = FALSE
    /\ UNCHANGED <<dataVars, disabled, focused, clipboard, pc, cb, aborted,
                   auxVars>>

\* A variant of KeyDownEnter that inserts the line break whatever the kind.
KeyDownEnterAnyKind ==
    /\ HostReady
    /\ TextLen(editor) < MaxLen
    /\ queue' = <<InsertTextOf(<<NL>>)>>
    /\ UNCHANGED <<dataVars, hostVars, clipboard, pc, cb, aborted, auxVars>>

\* Textbox::event, WindowEvent::KeyDown(Code::Enter): a single-line textbox
\* emits Submit(true), SelectAll and InsertText with the text of the bound
\* source (the source is there: new_core unwraps it), unchecks and releases
\* the capture; a multi-line textbox emits InsertText("\n") (here only
\* while the text has room for it).
KeyDownEnter ==
    /\ HostReady
    /\ IF kind = "SingleLine"
       THEN /\ \E text \in StringsUpTo(MaxLen) :
                 queue' = <<SubmitOf(TRUE), Event("SelectAll"),
                            InsertTextOf(text)>>
            /\ checked' = FALSE
            /\ captured' = FALSE
       ELSE /\ TextLen(editor) < MaxLen
            /\ queue' = <<InsertTextOf(<<NL>>)>>
            /\ UNCHANGED <<checked, captured>>
    /\ UNCHANGED <<dataVars, disabled, focused, clipboard, pc, cb, aborted,
                   auxVars>>

\* Textbox::event, WindowEvent::ActionRequest(SetTextSelection): the
\* request's anchor names a node and a character index.
Anchors ==
    [node : RootNode..(AccLen + 1), character_index : 0..AccLen]

ActionRequest ==
    /\ HostReady
    /\ \E anchor \in Anchors :
         /\ editor' = SetTextSelection(editor, [anchor |-> anchor],
                                       WrapOf(kind))
         /\ request' = [anchor |-> anchor]
    /\ UNCHANGED <<edit, transform, kind, on_edit, on_submit, hostVars,
                   clipboard, queue, pc, cb, aborted, access, saved>>

\* Textbox::accessibility: the accessibility tree is brought up to date.
Export ==
    /\ HostReady
    /\ access' = Accessibility(editor, WrapOf(kind))
    /\ UNCHANGED <<dataVars, hostVars, clipboard, queue, pc, cb, aborted,
                   request, saved>>

\* ------------------------------------------------- the editing session
\* A multi-line wrapped textbox, its host and its callbacks; the clipboard
\* is left alone.
ClipboardTypes == {"Copy", "Paste", "Cut"}
SessionTypes == EventTypes \ ClipboardTypes

Emit == EmitOf(SessionTypes)

CallbackReturn == CallbackReturnOf(SessionTypes)

Next ==
    \/ InsertText \/ ResetText \/ DeleteText \/ MoveCursor
    \/ StartEdit \/ EndEdit \/ Submit
    \/ SelectAll \/ SelectWord \/ SelectParagraph
    \/ Hit \/ Drag \/ Scroll
    \/ SetOnEdit \/ SetOnSubmit \/ GeometryChanged
    \/ CallbackReturn
    \/ Emit \/ SetDisabled \/ MouseDownOver \/ MouseDownOutside

Init ==
    /\ Resting("MultiLineWrapped", EmptyEditor, FALSE)
    /\ queue = <<>>
    /\ saved = NoSaved

Spec == Init /\ [][Next]_vars

\* -------------------------------------- properties of the editing session
\* The position the export takes for the selection anchor: the anchor, or
\* the cursor when nothing is selected.
SelectionOf(ed) == IF ed.select_opt = NoCursor THEN ed.cursor ELSE ed.select_opt

\* C1: in every reachable state with edit = FALSE the buffer holds no active
\* selection (an anchor at the cursor's own position selects nothing and is
\* let pass).
C1_IdleNoSelection == ~edit => editor.select_opt \in {NoCursor, editor.cursor}

\* C2: MoveCursor dispatched while edit = FALSE, whatever its movement and
\* selection flag, leaves the buffer's cursor and selection as they were.
C2_MoveCursorIdle ==
    [][(Ready("MoveCursor") /\ ~edit)
       => (/\ editor'.cursor = editor.cursor
           /\ editor'.select_opt = editor.select_opt)]_vars

\* A MoveCursor is about to be dispatched to an idle textbox whose text has
\* somewhere to move to.
C2_Witness == Ready("MoveCursor") /\ ~edit /\ TextLen(editor) > 0

\* C3: InsertText and DeleteText dispatched while edit = FALSE leave the
\* text, the cursor, the selection and the transform unchanged and do not
\* invoke the on_edit callback.
C3_EditIdle ==
    [][((Ready("InsertText") \/ Ready("DeleteText")) /\ ~edit)
       => (/\ editor' = editor
           /\ transform' = transform
           /\ pc' = "idle"
           /\ cb' = cb
           /\ on_edit' = on_edit)]_vars

\* An InsertText is about to be dispatched to an idle textbox that has an
\* on_edit callback and a text.
C3_Witness ==
    /\ Ready("InsertText")
    /\ ~edit
    /\ on_edit # NoCallback
    /\ TextLen(editor) > 0

\* C4: StartEdit starts editing (and takes focus, capture and the checked
\* mark) when the textbox is neither disabled nor editing, and otherwise
\* changes nothing of the session or the host.
C4_StartEdit ==
    [][Ready("StartEdit")
       => IF ~disabled /\ ~edit
          THEN edit' /\ focused' /\ captured' /\ checked'
          ELSE UNCHANGED <<dataVars, hostVars>>]_vars

\* A StartEdit is about to be dispatched to a disabled, idle textbox that
\* holds neither the capture nor the checked mark.
C4_Witness ==
    Ready("StartEdit") /\ disabled /\ ~edit /\ ~captured /\ ~checked

\* The session after an EndEdit: not editing, nothing selected, capture
\* released, unchecked.
Ended(e, ed, cap, chk) ==
    ~e /\ ed.select_opt = NoCursor /\ ~cap /\ ~chk

\* C5: EndEdit ends with edit = FALSE, no selection, the capture released
\* and the textbox unchecked, whatever the state it is dispatched in; and
\* dispatched in the state an EndEdit leaves, it changes nothing.
C5_EndEdit ==
    [][Ready("EndEdit")
       => (/\ Ended(edit', editor', captured', checked')
           /\ Ended(edit, editor, captured, checked)
                 => UNCHANGED <<dataVars, hostVars>>)]_vars

\* Two EndEdits in a row are about to be dispatched to an editing textbox
\* with a selection.
C5_Witness ==
    /\ Ready("EndEdit")
    /\ Len(queue) >= 2
    /\ queue[2].type = "EndEdit"
    /\ edit
    /\ editor.select_opt # NoCursor

\* C7: while a callback executes its slot is empty, and when it returns the
\* slot holds that callback again.
C7_CallbackSlots ==
    [][/\ pc' = "on_edit" => on_edit' = NoCallback
       /\ pc' = "on_submit" => on_submit' = NoCallback
       /\ (pc = "on_edit" /\ pc' = "idle")
             => (on_edit' = cb.callback /\ cb.callback # NoCallback)
       /\ (pc = "on_submit" /\ pc' = "idle")
             => (on_submit' = cb.callback /\ cb.callback # NoCallback)]_vars

\* The on_edit callback is executing while another event waits.
C7_Witness ==
    /\ pc = "on_edit"
    /\ cb.callback = "on_edit_fn"
    /\ queue # <<>>

\* Box c, shifted by tr, lies within box p widened by inset on every side.
BoxInside(c, tr, p, inset) ==
    /\ c.x + tr[1] >= p.x - inset
    /\ c.x + c.w + tr[1] <= p.x + p.w + inset
    /\ c.y + tr[2] >= p.y - inset
    /\ c.y + c.h + tr[2] <= p.y + p.h + inset

\* The caret of editor ed, when it has one, shifted by the stored transform,
\* lies within the container's bounds widened by one pixel.
CaretInside(ed, tr, k) ==
    InRange(ed.lines, ed.cursor)
    => BoxInside(layout_caret(ed, k), tr, ParentBounds, 1)

\* C11, as stated: after every MoveCursor, Hit or Drag that was handled (to
\* its end, without a panic), the caret's box shifted by the transform lies
\* within the container's bounds widened by one pixel, on both axes.
C11_CaretVisible ==
    [][((Ready("MoveCursor") \/ Ready("Hit") \/ Ready("Drag")) /\ ~aborted')
       => CaretInside(editor', transform', kind')]_vars

\* C11, for the events that take effect: the same after every Hit, every
\* Drag, and every MoveCursor handled while edit = TRUE.
C11_CaretVisibleEditing ==
    [][(((Ready("MoveCursor") /\ edit) \/ Ready("Hit") \/ Ready("Drag"))
        /\ ~aborted')
       => CaretInside(editor', transform', kind')]_vars

\* A MoveCursor is about to be dispatched to an editing textbox whose caret
\* has been scrolled out of the container.
C11_Witness ==
    /\ Ready("MoveCursor")
    /\ edit
    /\ InRange(editor.lines, editor.cursor)
    /\ ~CaretInside(editor, transform, kind)

\* The buffer of ed2 is the buffer of ed1: the same text, cursor and
\* selected range (an absent anchor and an anchor at the cursor both select
\* nothing).
SameBuffer(ed1, ed2) ==
    /\ ed2.lines = ed1.lines
    /\ ed2.cursor = ed1.cursor
    /\ SelectionOf(ed2) = SelectionOf(ed1)

\* C16: SelectAll, SelectWord, SelectParagraph, Hit, Drag and Submit
\* dispatched while edit = FALSE change neither the cursor nor the selected
\* range and invoke no callback.
C16_IdleIgnored ==
    [][((\/ Ready("SelectAll") \/ Ready("SelectWord")
         \/ Ready("SelectParagraph") \/ Ready("Hit") \/ Ready("Drag")
         \/ Ready("Submit"))
        /\ ~edit)
       => (SameBuffer(editor, editor') /\ pc' = "idle")]_vars

\* C17: InsertText, DeleteText, MoveCursor, Cut and Paste dispatched while
\* the region is disabled change neither the text nor the cursor nor the
\* selected range.
C17_DisabledIgnored ==
    [][((\/ Ready("InsertText") \/ Ready("DeleteText")
         \/ Ready("MoveCursor") \/ Ready("Cut") \/ Ready("Paste"))
        /\ disabled)
       => SameBuffer(editor, editor')]_vars

\* The offset of position c in the text of the hard lines joined by
\* newlines.
FlatOffset(lines, c) ==
    SumSeq([i \in 1..c.line |-> Len(lines[i]) + 1]) + c.index

\* Text t without its bytes from offset from up to offset to.
Without(t, from, to) == SubSeq(t, 1, from) \o SubSeq(t, to + 1, Len(t))

\* Text is selected in ed: an anchor that is not the cursor, both at
\* positions of the text.
TextSelected(ed) ==
    /\ ed.select_opt \notin {NoCursor, ed.cursor}
    /\ InRange(ed.lines, ed.cursor)
    /\ InRange(ed.lines, ed.select_opt)

\* C20: DeleteText dispatched while editing with text selected removes
\* exactly the selected text, whatever its movement: the text after it is
\* the text before it without the selected range, the cursor is at the
\* start of that range and nothing is selected.
C20_DeleteSelection ==
    [][(Ready("DeleteText") /\ edit /\ TextSelected(editor))
       => (/\ clone_text(editor') =
                Without(clone_text(editor),
                        FlatOffset(editor.lines, SelStart(editor)),
                        FlatOffset(editor.lines, SelEnd(editor)))
           /\ editor'.cursor = SelStart(editor)
           /\ editor'.select_opt = NoCursor
           /\ ~aborted')]_vars

\* A DeleteText is about to be dispatched to an editing textbox whose one
\* line of two bytes is selected from its start to the cursor at its end
\* (the state after two insertions and SelectAll).
C20_Witness ==
    /\ Ready("DeleteText")
    /\ edit
    /\ Len(editor.lines) = 1
    /\ Len(editor.lines[1]) = MaxLen
    /\ editor.select_opt = Cursor(0, 0)
    /\ editor.cursor = Cursor(0, MaxLen)

\* C21: ResetText(s), idle or editing, leaves the buffer holding the text
\* s and changes neither the edit flag nor the callback slots and invokes
\* no callback (checked for the events that carry their text in the
\* queue: the ResetText of a mouse press outside the textbox).
C21_ResetText ==
    [][(Ready("ResetText") /\ ~Head(queue).host)
       => (/\ clone_text(editor') = Head(queue).text
           /\ edit' = edit
           /\ on_edit' = on_edit
           /\ on_submit' = on_submit
           /\ pc' = "idle")]_vars

\* C27: an InsertText or DeleteText handled while editing (to its end,
\* without a panic) recomputes the transform for the mutated buffer and
\* then invokes the registered on_edit callback, once, with the full text
\* of the mutated buffer; without a callback it invokes nothing.
C27_EditCallback ==
    [][((Ready("InsertText") \/ Ready("DeleteText")) /\ edit /\ ~aborted')
       => (/\ transform' = set_caret(transform, editor', kind)
           /\ IF on_edit # NoCallback
              THEN /\ pc' = "on_edit"
                   /\ cb'.callback = on_edit
                   /\ cb'.text = clone_text(editor')
              ELSE pc' = "idle" /\ cb' = cb)]_vars

\* The on_edit callback is executing with the buffer's text of two hard
\* lines, the transform moved to show the caret on the second.
C27_Witness ==
    /\ pc = "on_edit"
    /\ edit
    /\ Len(editor.lines) = 2
    /\ cb.text = clone_text(editor)
    /\ transform # <<0, 0>>

\* ------------------------------------------------ submitting, under fairness
\* The session restricted to the events around Submit.  The event loop
\* handles every event of the queue and a callback returns: weak fairness
\* of the handlers.
SubmitTypes == {"StartEdit", "Submit", "SetOnSubmit", "InsertText"}

SubmitEmit == EmitOf(SubmitTypes)

SubmitReturn == CallbackReturnOf(SubmitTypes)

Handle ==
    \/ InsertText \/ ResetText \/ StartEdit \/ EndEdit \/ Submit
    \/ SetOnSubmit \/ SubmitReturn

FairNext == Handle \/ SubmitEmit \/ MouseDownOutside

FairSpec == Init /\ [][FairNext]_vars /\ WF_vars(Handle)

\* C6: Submit invokes the registered on_submit callback once, with the
\* buffer's text and the event's flag; the handler ends by emitting EndEdit
\* (after the callback's return when there is one); and a Submit waiting to
\* be handled while editing leads to edit = FALSE, unless the process
\* panics first.
C6_Submit ==
    /\ [][/\ ((Ready("Submit") /\ on_submit # NoCallback)
                => (/\ pc' = "on_submit"
                    /\ cb'.callback = on_submit
                    /\ cb'.text = clone_text(editor)
                    /\ (Head(queue).host \/ cb'.reason = Head(queue).flag)
                    /\ queue' = Tail(queue)))
           /\ ((Ready("Submit") /\ on_submit = NoCallback)
                => (/\ pc' = "idle"
                    /\ queue' = Append(Tail(queue), EndEditEvent)))
           /\ ((pc = "on_submit" /\ pc' = "idle")
                => (/\ queue' # <<>>
                    /\ queue'[Len(queue')] = EndEditEvent))]_vars
    /\ ((Ready("Submit") /\ edit) ~> (~edit \/ aborted))

\* The on_submit callback is executing for an editing textbox with a text.
C6_Witness ==
    /\ pc = "on_submit"
    /\ cb.callback = "on_submit_fn"
    /\ cb.text # <<>>
    /\ edit

\* ------------------------------------------------- inserting, then deleting
\* An editing textbox in any state of at most MaxLen bytes, with the script
\* InsertText(s), then DeleteText(Grapheme(Upstream)) once per grapheme of
\* s, waiting in its queue.
UndoScript(s) ==
    <<InsertTextOf(s)>>
    \o [i \in 1..Graphemes(s) |->
          DeleteTextOf(Movement("Grapheme", "Upstream"))]

UndoInit ==
    \E k \in Kinds, ed \in Editors(MaxLen), s \in StringsUpTo(UndoLen) :
        /\ Resting(k, ed, TRUE)
        /\ queue = UndoScript(s)
        /\ saved = [editor |-> ed, data |-> s]

UndoNext == InsertText \/ DeleteText

UndoSpec == UndoInit /\ [][UndoNext]_vars

\* The script has been dispatched to its end.
UndoDone == queue = <<>> /\ pc = "idle" /\ ~aborted

AccessInit ==
    /\ \E k \in Kinds, ed \in Editors(AccLen) : Resting(k, ed, FALSE)
    /\ queue = <<>>
    /\ saved = NoSaved

AccessNext == Export \/ ActionRequest

AccessSpec == AccessInit /\ [][AccessNext]_vars

\* C9: round trip of the selection.  When the exported tree is up to date
\* and a selection request arrives that carries exactly the exported
\* anchor, the request leaves the cursor where it was and the selection
\* anchor at the position it was exported from.
C9_RoundTrip ==
    [][(/\ access = Accessibility(editor, WrapOf(kind))
        /\ access' = access
        /\ request' = [anchor |-> access.anchor])
       => (/\ editor'.cursor = editor.cursor
           /\ SelectionOf(editor') = SelectionOf(editor))]_vars

\* The sum of the character_lengths of the line nodes of hard line l.
HardLineSum(children, l) ==
    SumSeq([c \in 1..Len(children) |->
              IF children[c].line_i = l
              THEN SumSeq(children[c].character_lengths) ELSE 0])

\* C10: in every export, the character_lengths of the line nodes of a hard
\* line sum to the hard line's byte length, plus one exactly when a real
\* newline ends the hard line (every hard line but the last).
C10_CharacterLengthsSum ==
    access # NoExport =>
        \A l \in 0..(Len(editor.lines) - 1) :
            HardLineSum(access.children, l) =
                Len(editor.lines[l + 1])
                + (IF l < Len(editor.lines) - 1 THEN 1 ELSE 0)

\* The nodes of the current visual lines.
LineNodes(ed, k) == 0..(Len(layout_runs(ed.lines, WrapOf(k))) - 1)

\* C12: a selection request whose anchor names a node that is none of the
\* current line nodes leaves the buffer's cursor and the selected range as
\* they were (an absent anchor and an anchor at the cursor both select
\* nothing and are not told apart).
C12_UnknownNode ==
    [][(request'.anchor.node \notin LineNodes(editor, kind))
       => (/\ editor'.cursor = editor.cursor
           /\ SelectionOf(editor') = SelectionOf(editor))]_vars

\* The total length of the visual lines before visual line number k that
\* belong to the same hard line.
EarlierLength(runs, k) ==
    SumSeq([j \in 1..k |->
              IF runs[j].line_i = runs[k + 1].line_i
              THEN LineLength(runs[j]) ELSE 0])

\* The exported pair sel names position pos: its node is a visual line of
\* the position's hard line, the line covers the position, and the
\* character index added to the length of the earlier visual lines of that
\* hard line is the position's byte offset.
Names(sel, pos, runs) ==
    /\ sel.node \in 0..(Len(runs) - 1)
    /\ runs[sel.node + 1].line_i = pos.line
    /\ sel.character_index <= LineLength(runs[sel.node + 1])
    /\ sel.character_index + EarlierLength(runs, sel.node) = pos.index

\* Both exported pairs of export a name their positions of ed.
ExportNames(a, ed, runs) ==
    /\ InRange(ed.lines, ed.cursor) => Names(a.focus, ed.cursor, runs)
    /\ InRange(ed.lines, SelectionOf(ed))
          => Names(a.anchor, SelectionOf(ed), runs)

C23_ImportInstalls ==
    [][(/\ <<request, editor>>' # <<request, editor>>
        /\ access' = access
        /\ request'.anchor.node \in LineNodes(editor, kind))
       => editor'.select_opt =
            Cursor(layout_runs(editor.lines, WrapOf(kind))
                       [request'.anchor.node + 1].line_i,
                   request'.anchor.character_index
                   + EarlierLength(layout_runs(editor.lines, WrapOf(kind)),
                                   request'.anchor.node))]_vars

\* ------------------------------------------- the export, longer texts
\* A textbox of every kind on every text of at most ExportLen bytes, the
\* cursor and the anchor at positions of the text; the accessibility tree
\* is brought up to date.
ExportLen == 4

ExportInit ==
    /\ \E k \in Kinds, ed \in Editors(ExportLen) : Resting(k, ed, FALSE)
    /\ queue = <<>>
    /\ saved = NoSaved

ExportNext == Export

ExportSpec == ExportInit /\ [][ExportNext]_vars

\* The exported position p names the root (nothing found) or a line node
\* and a character of it: an index of at most the number of entries of that
\* node's character_lengths.
CountsCharacters(a, p) ==
    \/ p.node = RootNode
    \/ /\ p.node + 1 \in 1..Len(a.children)
       /\ p.character_index <= Len(a.children[p.node + 1].character_lengths)

\* C31: in every export the character_index of the anchor and of the focus
\* is at most the number of entries of character_lengths of the node it
\* names, lines with characters of more than one byte included.
C31_CharacterIndex ==
    access # NoExport
      => CountsCharacters(access, access.anchor)
         /\ CountsCharacters(access, access.focus)

\* ------------------------------------------------------------ the clipboard
\* An editing textbox in any state of at most MaxLen bytes; the host sends
\* the clipboard commands, selects, registers callbacks, submits and ends
\* or starts the editing; a pasted text comes back as an InsertText.
ClipTypes ==
    {"Copy", "Paste", "Cut", "SelectAll", "SetOnEdit", "StartEdit", "EndEdit",
     "Submit", "SetOnSubmit"}

ClipEmit == EmitOf(ClipTypes)

\* The on_edit callback of this scenario emits nothing; the on_submit
\* callback may emit a Paste.
ClipReturn == CallbackReturnOf(IF pc = "on_submit" THEN {"Paste"} ELSE {})

ClipInit ==
    /\ \E ed \in Editors(MaxLen) : Resting("MultiLineWrapped", ed, TRUE)
    /\ queue = <<>>
    /\ saved = NoSaved

ClipNext ==
    \/ Copy \/ Paste \/ Cut \/ InsertText
    \/ SelectAll \/ SetOnEdit \/ StartEdit \/ EndEdit
    \/ Submit \/ SetOnSubmit
    \/ ClipReturn \/ ClipEmit

ClipSpec == ClipInit /\ [][ClipNext]_vars

\* The cursor and the selection anchor, if any, are positions of the text.
SelectionInRange(ed) ==
    /\ InRange(ed.lines, ed.cursor)
    /\ ed.select_opt # NoCursor => InRange(ed.lines, ed.select_opt)

\* C13: Copy, Cut and Paste return normally whatever the clipboard does: a
\* step that handles one of them never ends in a panic.
C13_ClipboardFailure ==
    [][((Ready("Copy") \/ Ready("Cut") \/ Ready("Paste"))
        /\ SelectionInRange(editor))
       => ~aborted']_vars

\* C14: a Cut that ends in the clipboard's failure has deleted nothing: the
\* text, the cursor and the selection are as before the Cut, the clipboard
\* is untouched and the on_edit callback is not invoked.
C14_CutFailure ==
    [][(Ready("Cut") /\ aborted')
       => (/\ editor' = editor
           /\ clipboard' = clipboard
           /\ pc' = "idle"
           /\ on_edit' = on_edit)]_vars

\* The clipboard failed a Cut of a non-empty selection, with a callback
\* registered: the panic left the Cut at the head of the queue.
C14_Witness ==
    /\ aborted
    /\ queue # <<>>
    /\ Head(queue).type = "Cut"
    /\ on_edit # NoCallback
    /\ HasText(clone_selected(editor))

\* C15: Cut handled while nothing is selected (no anchor, or the anchor at
\* the cursor) changes neither the clipboard nor the buffer and does not
\* invoke the on_edit callback.
C15_CutNothing ==
    [][(Ready("Cut") /\ editor.select_opt \in {NoCursor, editor.cursor})
       => (/\ clipboard' = clipboard
           /\ editor' = editor
           /\ pc' = "idle"
           /\ cb' = cb
           /\ on_edit' = on_edit
           /\ ~aborted')]_vars

\* A Cut is about to be dispatched to an editing textbox with a text, a
\* callback and an empty selection (anchor at the cursor).
C15_Witness ==
    /\ Ready("Cut")
    /\ edit
    /\ editor.select_opt = editor.cursor
    /\ TextLen(editor) > 0
    /\ on_edit # NoCallback

\* ---------------------------------------------------------------- scrolling
\* Largest size and offset of the boxes the clamping is applied to.
ClampMax == 2
\* Number of times the clamping is applied in a row.
ClampTimes == 2

\* The inputs of the clamping: a content box, a container box and an
\* offset, with the number of times the clamping has been applied to it.
ClampBoxes ==
    {Box(x, y, w, h) : x \in 0..1, y \in 0..1,
                       w \in 0..ClampMax, h \in 0..ClampMax}

ClampInputs ==
    {[bounds |-> b, parent |-> p, input |-> t, offset |-> t, applied |-> 0] :
        b \in ClampBoxes, p \in ClampBoxes,
        t \in (-ClampMax..ClampMax) \X (-ClampMax..ClampMax)}

NoClamp ==
    [bounds |-> NoBox, parent |-> NoBox, input |-> <<0, 0>>,
     offset |-> <<0, 0>>, applied |-> ClampTimes]

\* Two scenarios.  In the first a textbox of any kind, in any state of at
\* most MaxLen bytes, has the script Scroll(x, y), Scroll(0, 0) waiting in
\* its queue.  In the second enforce_text_bounds is applied ClampTimes
\* times in a row to an offset, for boxes and an offset of any size up to
\* ClampMax.
ScrollInit ==
    \/ /\ \E k \in Kinds, ed \in Editors(MaxLen), e \in BOOLEAN :
             Resting(k, ed, e)
       /\ \E x \in ScrollDeltas, y \in ScrollDeltas :
             queue = <<ScrollOf(x, y), ScrollOf(0, 0)>>
       /\ saved = NoClamp
    \/ /\ Resting("SingleLine", EmptyEditor, FALSE)
       /\ queue = <<>>
       /\ saved \in ClampInputs

\* "(tx, ty) = enforce_text_bounds(&bounds, &parent_bounds, (tx, ty))"
Clamp ==
    /\ saved.applied < ClampTimes
    /\ saved' = [saved EXCEPT
                   !.offset = enforce_text_bounds(saved.bounds, saved.parent, @),
                   !.applied = @ + 1]
    /\ UNCHANGED <<dataVars, hostVars, clipboard, queue, pc, cb, aborted,
                   access, request>>

ScrollNext == Scroll \/ Clamp

ScrollSpec == ScrollInit /\ [][ScrollNext]_vars

\* The offset at which content box b rests in container p on the x axis
\* and on the y axis.
RestX(b, p) == p.x - b.x
RestY(b, p) == p.y - b.y

\* The offset tr2 is what Scroll(x, y) makes of tr for content box b: the
\* scaled delta added, the sum clamped, and nothing else; on an axis where
\* the content is no longer than the container the result is the rest
\* position.
Scrolled(tr, tr2, b, p, x, y) ==
    /\ tr2 = enforce_text_bounds(b, p, <<tr[1] + x * SCROLL_SENSITIVITY,
                                         tr[2] + y * SCROLL_SENSITIVITY>>)
    /\ b.w <= p.w => tr2[1] = RestX(b, p)
    /\ b.h <= p.h => tr2[2] = RestY(b, p)

\* C18: Scroll(dx, dy) stores the clamped sum of the offset and the scaled
\* delta, with no step that shows the caret, and changes nothing of the
\* buffer; on an axis where the content is no longer than the container
\* the offset is at its rest position after every delta.
C18_Scroll ==
    [][Ready("Scroll")
       => (/\ Scrolled(transform, transform', ContentBounds(editor, kind),
                       ParentBounds, Head(queue).delta[1],
                       Head(queue).delta[2])
           /\ editor' = editor)]_vars

\* The first Scroll of the script has been handled and has moved the
\* caret out of the container.
C18_Witness ==
    /\ Len(queue) = 1
    /\ saved = NoClamp
    /\ InRange(editor.lines, editor.cursor)
    /\ ~CaretInside(editor, transform, kind)

\* C19: enforce_text_bounds applied to its own result gives that result
\* again, for every content box, container box and offset; and a
\* Scroll(0, 0) handled right after a Scroll leaves the transform as it
\* is.
C19_ClampIdempotent ==
    [][/\ saved'.applied > saved.applied
            => enforce_text_bounds(saved'.bounds, saved'.parent,
                                   saved'.offset) = saved'.offset
       /\ (saved.applied > 0 /\ saved'.applied > saved.applied)
            => saved'.offset = saved.offset
       /\ (Ready("Scroll") /\ Len(queue) = 1)
            => transform' = transform]_vars

\* The clamping has been applied twice to an offset that the first
\* application moved, for content longer than the container on the x axis
\* and shorter on the y axis.
C19_Witness ==
    /\ saved # NoClamp
    /\ saved.applied = ClampTimes
    /\ saved.bounds.w > saved.parent.w
    /\ saved.bounds.h < saved.parent.h
    /\ saved.offset[1] # saved.input[1]
    /\ saved.offset[2] # saved.input[2]

\* C26: a Cut handled while editing with text selected (and the clipboard
\* taking it) puts exactly the selected text on the clipboard, removes
\* exactly that text from the buffer and invokes the registered on_edit
\* callback, once, with the resulting full text; Copy and Cut handled
\* while edit = FALSE change neither the clipboard nor the buffer.
C26_CutAndCopy ==
    [][/\ (Ready("Cut") /\ edit /\ TextSelected(editor) /\ ~aborted')
          => (/\ clipboard' =
                   SubSeq(clone_text(editor),
                          FlatOffset(editor.lines, SelStart(editor)) + 1,
                          FlatOffset(editor.lines, SelEnd(editor)))
              /\ clone_text(editor') =
                   Without(clone_text(editor),
                           FlatOffset(editor.lines, SelStart(editor)),
                           FlatOffset(editor.lines, SelEnd(editor)))
              /\ IF on_edit # NoCallback
                 THEN /\ pc' = "on_edit"
                      /\ cb'.callback = on_edit
                      /\ cb'.text = clone_text(editor')
                 ELSE pc' = "idle")
       /\ ((Ready("Copy") \/ Ready("Cut")) /\ ~edit)
          => (/\ clipboard' = clipboard
              /\ editor' = editor
              /\ pc' = "idle")]_vars

\* The on_edit callback is executing after a Cut that took the letter out
\* of a two-byte text: the letter is on the clipboard, the rest in the
\* buffer.
C26_Witness ==
    /\ pc = "on_edit"
    /\ clipboard = <<"a">>
    /\ clone_text(editor) = <<"_">>
    /\ cb.text = <<"_">>

\* C30: the InsertText that a Paste queued (the only InsertText with a
\* payload here) is handled while the textbox is still editing and inserts
\* the clipboard's text, whatever was waiting in the queue when the Paste
\* was handled.
C30_PasteInserts ==
    [][(Ready("InsertText") /\ ~Head(queue).host)
       => (/\ edit
           /\ aborted' \/ editor' = insert_text(editor, Head(queue).text))]_vars

\* ------------------------------------------------------- the confirm key
\* A textbox of every kind, idle or editing, on every text of at most MaxLen
\* bytes; the host presses Enter, starts the edit and registers callbacks;
\* a callback may emit an EndEdit of its own.
EnterTypes == {"StartEdit", "SetOnEdit", "SetOnSubmit"}

EnterEmit == EmitOf(EnterTypes)

EnterReturn == CallbackReturnOf({"EndEdit"})

EnterInit ==
    \E k \in Kinds, ed \in Editors(MaxLen), e \in BOOLEAN :
      /\ Resting(k, ed, e)
      /\ queue = <<>>
      /\ saved = NoSaved

EnterNext ==
    \/ KeyDownEnter \/ Submit \/ SelectAll \/ InsertText \/ EndEdit
    \/ StartEdit \/ SetOnEdit \/ SetOnSubmit
    \/ EnterReturn \/ EnterEmit

EnterSpec == EnterInit /\ [][EnterNext]_vars

\* The host puts a Submit or an InsertText into the empty queue: in this
\* specification, the Enter key.
EnterPressed ==
    /\ HostReady
    /\ queue' # <<>>
    /\ Head(queue').type \in {"Submit", "InsertText"}

\* C28: the Enter key emits, in a multi-line textbox (unwrapped or
\* wrapped), InsertText("\n") and nothing else, no Submit; in a single-line
\* textbox Submit(true), followed only by SelectAll and the InsertText that
\* carries the bound source's text, no InsertText("\n") of its own.
C28_EnterByKind ==
    [][EnterPressed
       => IF kind = "SingleLine"
          THEN /\ Len(queue') = 3
               /\ queue'[1] = SubmitOf(TRUE)
               /\ queue'[2].type = "SelectAll"
               /\ queue'[3].type = "InsertText" /\ ~queue'[3].host
          ELSE queue' = <<InsertTextOf(<<NL>>)>>]_vars

\* Enter was pressed in a multi-line unwrapped textbox that is editing: the
\* line break is waiting to be inserted.
C28_Witness ==
    /\ kind = "MultiLineUnwrapped"
    /\ edit
    /\ queue = <<InsertTextOf(<<NL>>)>>
    /\ TextLen(editor) > 0

\* An InsertText of the Enter key (the one with a payload) is waiting.
InsertWaiting(q) ==
    \E i \in 1..Len(q) : q[i].type = "InsertText" /\ ~q[i].host

\* C29: after Enter in a single-line textbox that is editing, Submit(true)
\* is handled first and gives the on_submit callback the text of the
\* buffer as it is; the EndEdit of Submit is queued behind SelectAll and
\* InsertText; the edit does not end while the InsertText is waiting; and
\* the InsertText, handled while still editing, replaces the whole buffer
\* by the source's text and passes that text to the on_edit callback.
C29_EnterOrder ==
    [][/\ (Ready("Submit") /\ Head(queue) = SubmitOf(TRUE) /\ Len(queue) = 3)
          => (/\ editor' = editor
              /\ IF on_submit # NoCallback
                 THEN /\ pc' = "on_submit"
                      /\ cb'.text = clone_text(editor)
                      /\ cb'.reason = TRUE
                      /\ queue' = Tail(queue)
                 ELSE queue' = Tail(queue) \o <<EndEditEvent>>)
       /\ (pc = "on_submit" /\ pc' = "idle")
          => (/\ queue'[Len(queue')] = EndEditEvent
              /\ SubSeq(queue', 1, Len(queue)) = queue)
       /\ (edit /\ ~edit') => ~InsertWaiting(queue)
       /\ (/\ Ready("InsertText") /\ ~Head(queue).host
           /\ kind = "SingleLine" /\ edit /\ ~aborted')
          => (/\ clone_text(editor') = Head(queue).text
              /\ edit'
              /\ IF on_edit # NoCallback
                 THEN pc' = "on_edit" /\ cb'.text = Head(queue).text
                 ELSE pc' = "idle")]_vars

\* The on_edit callback is executing for the replacement of the buffer by
\* the source's text in a single-line textbox that is still editing, the
\* EndEdit of Submit the only event waiting.
C29_Witness ==
    /\ kind = "SingleLine"
    /\ edit
    /\ pc = "on_edit"
    /\ on_submit # NoCallback
    /\ queue = <<EndEditEvent>>
    /\ cb.text = clone_text(editor)
    /\ TextLen(editor) = MaxLen

\* -------------------------------------------------------- moving the cursor
\* Longest text (in bytes, newlines included) of the cursor movements.
MoveLen == 3

\* The scripts: one MoveCursor of any movement, extending or not; and
\* MoveCursor(Body(Upstream), false), MoveCursor(Body(Downstream), true).
MoveScripts ==
    {<<MoveCursorOf(m, extend)>> : m \in Movements, extend \in BOOLEAN}
    \cup {<<MoveCursorOf(Movement("Body", "Upstream"), FALSE),
            MoveCursorOf(Movement("Body", "Downstream"), TRUE)>>}

\* An editing textbox of any kind in any state of at most MoveLen bytes,
\* with one of the scripts waiting in its queue.
MoveInit ==
    \E k \in Kinds, ed \in Editors(MoveLen), script \in MoveScripts :
        /\ Resting(k, ed, TRUE)
        /\ queue = script
        /\ saved = [editor |-> ed, data |-> <<>>]

MoveNext == MoveCursor

MoveSpec == MoveInit /\ [][MoveNext]_vars

\* The last position of the buffer.
BufferEnd(lines) == Cursor(Len(lines) - 1, Len(lines[Len(lines)]))

\* C24: MoveCursor(m, extend) while editing.  Extending without a
\* selection anchors one at the cursor held before the move; extending
\* with a selection keeps its anchor; not extending leaves no selection.
\* Body(Upstream) without extending puts the cursor at the start, and
\* Body(Downstream) with extending from there selects the whole content:
\* anchor at the start, cursor at the end.
C24_MoveCursor ==
    [][(Ready("MoveCursor") /\ edit)
       => (/\ (Head(queue).flag /\ editor.select_opt = NoCursor)
                 => editor'.select_opt = editor.cursor
           /\ (Head(queue).flag /\ editor.select_opt # NoCursor)
                 => editor'.select_opt = editor.select_opt
           /\ ~Head(queue).flag => editor'.select_opt = NoCursor
           /\ Head(queue) = MoveCursorOf(Movement("Body", "Upstream"), FALSE)
                 => editor'.cursor = Cursor(0, 0)
           /\ (/\ Head(queue) =
                     MoveCursorOf(Movement("Body", "Downstream"), TRUE)
               /\ editor.cursor = Cursor(0, 0)
               /\ editor.select_opt = NoCursor)
                 => (/\ editor'.select_opt = Cursor(0, 0)
                     /\ editor'.cursor = BufferEnd(editor.lines))
           /\ editor'.lines = editor.lines
           /\ ~aborted')]_vars

\* The two-move script has run on a buffer of two hard lines that started
\* with the cursor away from the start and nothing selected: the whole
\* content is selected.
C24_Witness ==
    /\ queue = <<>>
    /\ saved.editor.select_opt = NoCursor
    /\ saved.editor.cursor # Cursor(0, 0)
    /\ Len(editor.lines) = 2
    /\ TextLen(editor) = MoveLen
    /\ editor.select_opt = Cursor(0, 0)
    /\ editor.cursor = BufferEnd(editor.lines)

====
